---------------------------- MODULE Spec2Model ----------------------------
(***************************************************************************)
(* Model of DevAnoTector.  The backend (backend/src/index.ts): the         *)
(* weighted risk function simulate, the input resolver buildInputs, the    *)
(* request schema InputSchema and the handlers GET /patients,              *)
(* POST /simulate and POST /simulate/sweep, over the two patient lists.    *)
(* The frontend (frontend/src/App.tsx, components/panels/RolePanel.tsx,    *)
(* constants.tsx): the shared sliders and their routing to the two role    *)
(* panels, the selection and its persistence, manual runs with the run     *)
(* log, and the debounced overlay runs.                                    *)
(*                                                                         *)
(* Numbers.  The code computes in IEEE doubles; the model computes the     *)
(* same expressions exactly, in integers:                                  *)
(*   coilOffsetDeg  whole degrees                                          *)
(*   chargeRateC    hundredths of C        (1C = 100)                      *)
(*   tempC          whole degrees Celsius                                  *)
(*   load_mA        whole milliamperes                                     *)
(*   factors        tenths                 (1.0 = 10)                      *)
(*   efficiency     ten-thousandths        (Math.cos from a table)         *)
(*   sub-risks      units of 1/RiskUnit                                    *)
(*   weights        twentieths             (0.45 = 9/20), times factors    *)
(*   score, telemetry.efficiency as returned: hundredths (toFixed(2))      *)
(* A weighted sum is kept as the exact fraction num/den until it is        *)
(* compared with a band threshold or rounded by toFixed.  The exact value  *)
(* and the double can fall on different sides only when the exact value    *)
(* is itself a threshold or a rounding tie (a multiple of 0.005).          *)
(***************************************************************************)
EXTENDS Integers, Sequences, FiniteSets, TLC

VARIABLES phiPatients, researchPatients, pc, req, resp, calls

(* The frontend (frontend/src/App.tsx and components/panels/RolePanel.tsx):*)
(* the state of App, the browser's localStorage, the state of the two      *)
(* role panels, the manual and overlay runs in flight, and history         *)
(* variables of the properties.                                            *)
VARIABLES sliders, affect, autoRun, rememberSelection, hasAnySelection,
          localStorage, panel, manual, overlay, history

backendVars == <<phiPatients, researchPatients, pc, req, resp, calls>>

frontendVars ==
    <<sliders, affect, autoRun, rememberSelection, hasAnySelection,
      localStorage, panel, manual, overlay, history>>

vars == <<backendVars, frontendVars>>

---------------------------------------------------------------------------
(* Arithmetic helpers (Math.max, Math.min, Math.abs).                      *)

Max(a, b) == IF a >= b THEN a ELSE b

Min(a, b) == IF a <= b THEN a ELSE b

Abs(a) == IF a < 0 THEN -a ELSE a

(* Option values: an absent JavaScript property is None, a present one     *)
(* Some(x).                                                                *)
None == << >>

Some(x) == <<x>>

---------------------------------------------------------------------------
(* Math.cos of a whole number of degrees, in ten-thousandths.              *)

CosTable ==
 << 10000, 9998, 9994, 9986, 9976, 9962, 9945, 9925, 9903, 9877,
    9848, 9816, 9781, 9744, 9703, 9659, 9613, 9563, 9511, 9455,
    9397, 9336, 9272, 9205, 9135, 9063, 8988, 8910, 8829, 8746,
    8660, 8572, 8480, 8387, 8290, 8192, 8090, 7986, 7880, 7771,
    7660, 7547, 7431, 7314, 7193, 7071, 6947, 6820, 6691, 6561,
    6428, 6293, 6157, 6018, 5878, 5736, 5592, 5446, 5299, 5150,
    5000, 4848, 4695, 4540, 4384, 4226, 4067, 3907, 3746, 3584,
    3420, 3256, 3090, 2924, 2756, 2588, 2419, 2250, 2079, 1908,
    1736, 1564, 1392, 1219, 1045, 872, 698, 523, 349, 175,
    0, -175, -349, -523, -698, -872, -1045, -1219, -1392, -1564,
    -1736, -1908, -2079, -2250, -2419, -2588, -2756, -2924, -3090, -3256,
    -3420, -3584, -3746, -3907, -4067, -4226, -4384, -4540, -4695, -4848,
    -5000, -5150, -5299, -5446, -5592, -5736, -5878, -6018, -6157, -6293,
    -6428, -6561, -6691, -6820, -6947, -7071, -7193, -7314, -7431, -7547,
    -7660, -7771, -7880, -7986, -8090, -8192, -8290, -8387, -8480, -8572,
    -8660, -8746, -8829, -8910, -8988, -9063, -9135, -9205, -9272, -9336,
    -9397, -9455, -9511, -9563, -9613, -9659, -9703, -9744, -9781, -9816,
    -9848, -9877, -9903, -9925, -9945, -9962, -9976, -9986, -9994, -9998,
    -10000 >>

EffUnit == 100 * 100

Cos(deg) ==
    LET d == Abs(deg) % 360
        e == IF d > 180 THEN 360 - d ELSE d
    IN  CosTable[e + 1]

---------------------------------------------------------------------------
(* simulate: efficiency and the four sub-risks.                            *)

(* One unit of a sub-risk: 1/RiskUnit, the common denominator of           *)
(* 1/10000 (efficiency), 1/100 (chargeRateC), 1/23 (tempC) and 1/500       *)
(* (load_mA).                                                              *)
RiskUnit == 23 * EffUnit

efficiency(coilOffsetDeg) == Max(0, Cos(coilOffsetDeg))

(* misalignRisk as the offset over the 30 degrees of the range.            *)
misalignRisk_Linear(coilOffsetDeg) ==
    Min(RiskUnit, Abs(coilOffsetDeg) * (RiskUnit \div 30))

misalignRisk(coilOffsetDeg) == (EffUnit - efficiency(coilOffsetDeg)) * 23

(* rateRisk without the floor at zero: chargeRateC - 1.                    *)
rateRisk_NoFloor(chargeRateC) == (chargeRateC - 100) * (RiskUnit \div 100)

rateRisk(chargeRateC) == Max(0, chargeRateC - 100) * (RiskUnit \div 100)

(* tempRisk with the excess over 37 divided by the 60 of the range's top   *)
(* instead of by 23.                                                       *)
tempRisk_Over60(tempC) == Max(0, (tempC - 37) * (RiskUnit \div 60))

tempRisk(tempC) == Max(0, (tempC - 37) * (RiskUnit \div 23))

(* loadRisk with load_mA taken as a fraction of 50 mA.                     *)
loadRisk_Per50(load_mA) == Min(RiskUnit, load_mA * (RiskUnit \div 50))

loadRisk(load_mA) == Min(RiskUnit, load_mA * (RiskUnit \div 500))

Risks(inputs) ==
    [misalign |-> misalignRisk(inputs.coilOffsetDeg),
     rate     |-> rateRisk(inputs.chargeRateC),
     temp     |-> tempRisk(inputs.tempC),
     load     |-> loadRisk(inputs.load_mA)]

RiskNames == {"misalign", "rate", "temp", "load"}

(* The base weights all equal, 0.25 each.                                  *)
BaseWeights_Even == [misalign |-> 5, rate |-> 5, temp |-> 5, load |-> 5]

(* let w = { misalign: 0.45, rate: 0.25, temp: 0.20, load: 0.10 }, in      *)
(* twentieths.                                                             *)
BaseWeights == [misalign |-> 9, rate |-> 5, temp |-> 4, load |-> 2]

WeightUnit == 4 * 5

(* factors.k || 1: a multiplier of 0 taken as absent.                      *)
FactorOf_Falsy(f, k) == IF k \in DOMAIN f /\ f[k] # 0 THEN f[k] ELSE 10

(* factors.k ?? 1, in tenths; f is the factors object, a function from     *)
(* the names it carries to their multipliers.                              *)
FactorOf(f, k) == IF k \in DOMAIN f THEN f[k] ELSE 10

(* The weights before the division by s, and s itself, as num/den pairs    *)
(* over a common denominator: with no factors the base weights over 20,    *)
(* with factors w.k * factor over 200 and s their sum over 200.            *)
RawWeights(factors) ==
    IF factors = None
    THEN BaseWeights
    ELSE [k \in RiskNames |-> BaseWeights[k] * FactorOf(factors[1], k)]

(* WeightSum with the division by s left out: the weights stay w.k times   *)
(* the factor.                                                             *)
WeightSum_NotRenormalized(factors) ==
    IF factors = None THEN WeightUnit ELSE WeightUnit * 10

(* const s = w.misalign + w.rate + w.temp + w.load; the effective weight   *)
(* of k is RawWeights(factors)[k] / WeightSum(factors).  With no factors   *)
(* the weights are not divided: they are the base weights, k/20.           *)
WeightSum(factors) ==
    IF factors = None
    THEN WeightUnit
    ELSE LET w == RawWeights(factors)
         IN  w.misalign + w.rate + w.temp + w.load

(* The weights w that enter the score, each the fraction num/den: the     *)
(* base weights when no factors are passed, else w.k/s.                    *)
Weights(factors) ==
    [k \in RiskNames |->
        [num |-> RawWeights(factors)[k], den |-> WeightSum(factors)]]

(* Numerator of the score: sum of raw weight times sub-risk.  The score    *)
(* is ScoreNum / (WeightSum * RiskUnit).                                   *)
ScoreNum(inputs, factors) ==
    LET w == RawWeights(factors)
        r == Risks(inputs)
    IN  w.misalign * r.misalign + w.rate * r.rate
          + w.temp * r.temp + w.load * r.load

---------------------------------------------------------------------------
(* Number.prototype.toFixed(2) followed by Number(...), and the status     *)
(* band.  A double is a record [k, v]: k = "num" and v the value in        *)
(* hundredths, or k one of "NaN", "Infinity", "-Infinity" (v = 0).         *)

Finite(v) == [k |-> "num", v |-> v]

NaN == [k |-> "NaN", v |-> 0]

Infinity == [k |-> "Infinity", v |-> 0]

NegInfinity == [k |-> "-Infinity", v |-> 0]

(* (num/den).toFixed(2) for den > 0, in hundredths: the sign is set aside, *)
(* the magnitude is rounded to the nearest hundredth, a tie to the larger. *)
ToFixed2(num, den) ==
    LET a  == Abs(num)
        i  == a \div den
        r0 == a % den
        d1 == (10 * r0) \div den
        r1 == (10 * r0) % den
        d2 == (10 * r1) \div den
        r2 == (10 * r1) % den
        up == IF 2 * r2 >= den THEN 1 ELSE 0
        h  == 100 * i + 10 * d1 + d2 + up
    IN  IF num < 0 THEN -h ELSE h

(* Number((num/den).toFixed(2)) for any den: a division by zero gives      *)
(* NaN or an infinity, which toFixed and Number pass through.              *)
FixedQuot(num, den) ==
    IF den > 0 THEN Finite(ToFixed2(num, den))
    ELSE IF den < 0 THEN Finite(ToFixed2(-num, -den))
    ELSE IF num > 0 THEN Infinity
    ELSE IF num < 0 THEN NegInfinity
    ELSE NaN

(* The sign of the weighted sum when s = 0: every weight is w.k/0, that    *)
(* is NaN (w.k = 0) or an infinity; an infinity times a zero sub-risk is   *)
(* NaN, and the sum of opposite infinities is NaN.                         *)
ZeroSumScore(inputs, factors) ==
    LET w     == RawWeights(factors)
        r     == Risks(inputs)
        isNaN == \E k \in RiskNames : w[k] = 0 \/ r[k] = 0
        pos   == \E k \in RiskNames : w[k] * r[k] > 0
        neg   == \E k \in RiskNames : w[k] * r[k] < 0
    IN  IF isNaN \/ (pos /\ neg) THEN NaN
        ELSE IF pos THEN Infinity ELSE NegInfinity

(* The band thresholds of simulate, in hundredths.                         *)
RedFrom == 65

AmberFrom == 35

(* score >= th/100, on the unrounded score num/(s * RiskUnit), s # 0.      *)
AtLeast(num, s, th) ==
    IF s > 0 THEN num >= s * th * (RiskUnit \div 100)
    ELSE -num >= (-s) * th * (RiskUnit \div 100)

(* let status = "GREEN"; if (score >= 0.65) status = "RED";                *)
(* else if (score >= 0.35) status = "AMBER";  -- on the unrounded score.   *)
StatusOf(inputs, factors) ==
    LET num == ScoreNum(inputs, factors)
        s   == WeightSum(factors)
    IN  IF s = 0
        THEN (IF ZeroSumScore(inputs, factors) = Infinity THEN "RED" ELSE "GREEN")
        ELSE IF AtLeast(num, s, RedFrom) THEN "RED"
        ELSE IF AtLeast(num, s, AmberFrom) THEN "AMBER"
        ELSE "GREEN"

(* score: Number(score.toFixed(2)).                                        *)
ScoreOf(inputs, factors) ==
    LET num == ScoreNum(inputs, factors)
        s   == WeightSum(factors)
    IN  IF s = 0 THEN ZeroSumScore(inputs, factors)
        ELSE FixedQuot(num, s * RiskUnit)

(* telemetry.efficiency: Number(efficiency.toFixed(2)).                    *)
EfficiencyOf(inputs) == ToFixed2(efficiency(inputs.coilOffsetDeg), EffUnit)

(* The rationale with the weights line whether or not factors are passed.  *)
Rationale_AlwaysWeights(inputs, factors) ==
    << [line |-> "Misalignment", coilOffsetDeg |-> inputs.coilOffsetDeg,
        efficiency |-> EfficiencyOf(inputs)],
       [line |-> "Charge", chargeRateC |-> inputs.chargeRateC,
        tempC |-> inputs.tempC, load_mA |-> inputs.load_mA],
       [line |-> "Weights",
        w |-> [k \in RiskNames |->
                 FixedQuot(RawWeights(factors)[k], WeightSum(factors))]] >>

(* The rationale lines, in order; the third only if (factors).             *)
Rationale(inputs, factors) ==
    << [line |-> "Misalignment", coilOffsetDeg |-> inputs.coilOffsetDeg,
        efficiency |-> EfficiencyOf(inputs)],
       [line |-> "Charge", chargeRateC |-> inputs.chargeRateC,
        tempC |-> inputs.tempC, load_mA |-> inputs.load_mA] >>
    \o (IF factors = None THEN << >>
        ELSE << [line |-> "Weights",
                 w |-> [k \in RiskNames |->
                          FixedQuot(RawWeights(factors)[k], WeightSum(factors))]] >>)

simulate(inputs, factors) ==
    [status    |-> StatusOf(inputs, factors),
     score     |-> ScoreOf(inputs, factors),
     telemetry |-> [efficiency |-> EfficiencyOf(inputs)],
     rationale |-> Rationale(inputs, factors)]

---------------------------------------------------------------------------
(* JSON values of a request body.  A property is a record [t, v]: t is     *)
(* the JavaScript type of the value ("undefined" when the property is      *)
(* absent) and v the number it carries (0 when it carries none).  The      *)
(* patientId property is a record [t, s] with s the string.                *)

Undefined == [t |-> "undefined", v |-> 0]

Num(n) == [t |-> "number", v |-> n]

NotANumber == [t |-> "string", v |-> 0]

NoId == [t |-> "undefined", s |-> ""]

Id(str) == [t |-> "string", s |-> str]

NumericId == [t |-> "number", s |-> ""]

InputFields == {"coilOffsetDeg", "chargeRateC", "tempC", "load_mA"}

SweepControls == {"from", "to", "step"}

(* z.number().min(lo).max(hi).optional() of InputSchema, per field.        *)
FieldMin == [coilOffsetDeg |-> 0, chargeRateC |-> 20, tempC |-> 15, load_mA |-> 0]

FieldMax == [coilOffsetDeg |-> 30, chargeRateC |-> 200, tempC |-> 60, load_mA |-> 500]

(* FieldOk without the .max(hi) test.                                      *)
FieldOk_NoMax(f, x) ==
    \/ x.t = "undefined"
    \/ x.t = "number" /\ x.v >= FieldMin[f]

FieldOk(f, x) ==
    \/ x.t = "undefined"
    \/ x.t = "number" /\ x.v >= FieldMin[f] /\ x.v <= FieldMax[f]

(* patientId: z.string().optional()                                        *)
PatientIdOk(x) == x.t \in {"undefined", "string"}

(* The keys InputSchema declares.  A z.object strips every other key of    *)
(* the body from the parsed data.                                          *)
SchemaKeys == InputFields \cup {"patientId"}

(* InputSchema.safeParse(req.body) and InputSchema.partial().safeParse:    *)
(* success iff every declared key is absent or valid; data keeps the       *)
(* declared keys only (the keys from, to, step are not declared, so they   *)
(* are undefined in parsed.data).                                          *)
InputSchema(body) ==
    [success |-> PatientIdOk(body.patientId)
                   /\ \A f \in InputFields : FieldOk(f, body[f]),
     data    |-> [k \in DOMAIN body |->
                    IF k \in SchemaKeys THEN body[k] ELSE Undefined]]

---------------------------------------------------------------------------
(* getRole, the patient lists, buildInputs.                                *)

(* String.prototype.toLowerCase on the header values of the model.         *)
ToLowerCase(str) ==
    CASE str = "CLINICIAN" -> "clinician"
      [] str = "Clinician" -> "clinician"
      [] str = "Engineer"  -> "engineer"
      [] OTHER             -> str

(* The header compared as sent, without toLowerCase.                       *)
getRole_CaseSensitive(r) ==
    IF r.xrole = Some("clinician") THEN "clinician" ELSE "engineer"

(* (req.header("x-role") || "").toLowerCase() === "clinician"              *)
getRole(r) ==
    LET h == ToLowerCase(IF r.xrole = None THEN "" ELSE r.xrole[1])
    IN  IF h = "clinician" THEN "clinician" ELSE "engineer"

(* The lookup searching both lists, whatever the caller's role.            *)
PatientList_IgnoreRole(role) == phiPatients \o researchPatients

(* The engineer's lookup falling back to the identified list when the      *)
(* de-identified list has no such id.                                      *)
PatientList_PhiFallback(role) ==
    IF role = "clinician" THEN phiPatients ELSE researchPatients \o phiPatients

PatientList(role) == IF role = "clinician" THEN phiPatients ELSE researchPatients

(* list.find((x) => x.id === id): the first match, or None.                *)
Find(list, id) ==
    LET hits == {i \in 1..Len(list) : list[i].id = id}
    IN  IF hits = {} THEN None
        ELSE Some(list[CHOOSE i \in hits : \A j \in hits : i <= j])

(* if (body.patientId): a non-empty string.                                *)
Truthy(pid) == pid.t = "string" /\ pid.s # ""

(* The entity the request names, in the list of the caller's role.         *)
Lookup(r, body) ==
    IF Truthy(body.patientId)
    THEN Find(PatientList(getRole(r)), body.patientId.s)
    ELSE None

DefaultCoilOffsetDeg == 5

DefaultChargeRateC == 100

DefaultTempC == 37

DefaultLoad_mA == 200

SystemDefaults ==
    [coilOffsetDeg |-> DefaultCoilOffsetDeg, chargeRateC |-> DefaultChargeRateC,
     tempC |-> DefaultTempC, load_mA |-> DefaultLoad_mA]

(* a || b in place of a ?? b: a zero falls through to b as well.           *)
Coalesce_Falsy(x, b) == IF x.t \in {"undefined", "null"} \/ x.v = 0 THEN b ELSE x.v

(* a ?? b on a body property and a number.                                 *)
Coalesce(x, b) == IF x.t \in {"undefined", "null"} THEN b ELSE x.v

(* let base = defaults; if (p?.baseline) base = { ...base, ...p.baseline } *)
BaseOf(p) ==
    IF p = None \/ p[1].baseline = None
    THEN SystemDefaults
    ELSE [f \in InputFields |->
            IF f \in DOMAIN p[1].baseline[1]
            THEN p[1].baseline[1][f] ELSE SystemDefaults[f]]

buildInputs(r, body) ==
    LET base == BaseOf(Lookup(r, body))
    IN  [f \in InputFields |-> Coalesce(body[f], base[f])]

(* let factors; if (body.patientId) { ... if (p?.factors) factors = ... }  *)
FactorsOf(r, body) ==
    LET p == Lookup(r, body)
    IN  IF p = None THEN None ELSE p[1].factors

---------------------------------------------------------------------------
(* The handlers, as functions of the request: the response and the calls   *)
(* of simulate the handler makes, in order.                                *)

Call(inputs, factors) ==
    [inputs |-> inputs, factors |-> factors, w |-> Weights(factors),
     out |-> simulate(inputs, factors)]

BadRequest == [status |-> 400, body |-> [error |-> TRUE]]

(* app.post("/simulate", ...)                                              *)
HandleSimulate(r) ==
    LET parsed == InputSchema(r.body)
    IN  IF ~parsed.success
        THEN [resp |-> BadRequest, calls |-> << >>]
        ELSE LET body    == parsed.data
                 inputs  == buildInputs(r, body)
                 factors == FactorsOf(r, body)
                 c       == Call(inputs, factors)
             IN  [resp |-> [status |-> 200, body |-> c.out], calls |-> <<c>>]

(* The loop test off by one, in either direction.                          *)
LoopCond_Strict(deg, to) == deg < to

LoopCond_OneMore(deg, to) == deg <= to + 1

(* The loop test of the sweep: deg <= to.                                  *)
LoopCond(deg, to) == deg <= to

(* for (let deg = from; deg <= to; deg += step) {                          *)
(*   const out = simulate({ ...inputsBase, coilOffsetDeg: deg }, factors); *)
(*   data.push({ deg, score: out.score }); }                               *)
(* Each element is the loop variable with the call made for it.            *)
(* SweepPoint_NoReplace calls simulate on inputsBase as it is.             *)
SweepPoint_NoReplace(deg, inputsBase, factors) ==
    [deg |-> deg, call |-> Call(inputsBase, factors)]

SweepPoint(deg, inputsBase, factors) ==
    [deg |-> deg, call |-> Call([inputsBase EXCEPT !.coilOffsetDeg = deg], factors)]

RECURSIVE SweepLoop(_, _, _, _, _)
SweepLoop(deg, to, step, inputsBase, factors) ==
    IF LoopCond(deg, to)
    THEN <<SweepPoint(deg, inputsBase, factors)>>
           \o SweepLoop(deg + step, to, step, inputsBase, factors)
    ELSE << >>

(* const from = Math.max(0, Number(body.from ?? 0));                       *)
(* const to = Math.max(from, Number(body.to ?? 20));                       *)
(* const step = stepRaw > 0 ? stepRaw : 1;   with stepRaw = body.step ?? 1 *)
DefaultFrom == 0

DefaultTo == 20

DefaultStep == 1

SweepFrom(body) == Max(0, Coalesce(body.from, DefaultFrom))

SweepTo(body) == Max(SweepFrom(body), Coalesce(body.to, DefaultTo))

SweepStep(body) ==
    LET stepRaw == Coalesce(body.step, DefaultStep)
    IN  IF stepRaw > 0 THEN stepRaw ELSE 1

(* app.post("/simulate/sweep", ...)                                        *)
HandleSweep(r) ==
    LET parsed == InputSchema(r.body)
    IN  IF ~parsed.success
        THEN [resp |-> BadRequest, calls |-> << >>]
        ELSE LET body       == parsed.data
                 from       == SweepFrom(body)
                 to         == SweepTo(body)
                 step       == SweepStep(body)
                 inputsBase == buildInputs(r, body)
                 factors    == FactorsOf(r, body)
                 cs         == SweepLoop(from, to, step, inputsBase, factors)
             IN  [resp  |-> [status |-> 200,
                             body |-> [patientId |-> body.patientId,
                                       from |-> from, to |-> to, step |-> step,
                                       data |-> [i \in 1..Len(cs) |->
                                                   [deg   |-> cs[i].deg,
                                                    score |-> cs[i].call.out.score]]]],
                     calls |-> [i \in 1..Len(cs) |-> cs[i].call]]

(* app.get("/patients", ...): the records of the list of the caller's     *)
(* role, each mapped to the properties the handler names.  A property      *)
(* whose value is undefined is left out by res.json; history is always     *)
(* there (p.history ?? []).                                                *)
ClinicianView ==
    {"id", "name", "sex", "dob", "address", "deviceModel", "history",
     "baseline", "factors"}

EngineerView ==
    {"id", "displayName", "sex", "age", "deviceModel", "history",
     "baseline", "factors"}

(* The engineer's records copied whole, { ...p }.                          *)
Project_Whole(p, view) ==
    [id |-> p.id,
     keys |-> {"id", "history"} \cup p.keys
                \cup (IF p.baseline # None THEN {"baseline"} ELSE {})
                \cup (IF p.factors # None THEN {"factors"} ELSE {}),
     baseline |-> p.baseline, factors |-> p.factors]

Project(p, view) ==
    [id |-> p.id,
     keys |-> view \cap ({"id", "history"} \cup p.keys
                           \cup (IF p.baseline # None THEN {"baseline"} ELSE {})
                           \cup (IF p.factors # None THEN {"factors"} ELSE {})),
     baseline |-> p.baseline, factors |-> p.factors]

HandlePatients(r) ==
    LET role == getRole(r)
        list == PatientList(role)
        view == IF role = "clinician" THEN ClinicianView ELSE EngineerView
    IN  [resp  |-> [status |-> 200,
                    body |-> [i \in 1..Len(list) |-> Project(list[i], view)]],
         calls |-> << >>]

---------------------------------------------------------------------------
(* The entity store.  The lists are read once, from patients.phi.json and  *)
(* patients.research.json, and cast to the patient types without being     *)
(* validated; the model takes the first n records of two catalogues.       *)

MaxPatients == 4

(* A stored record: its id, its baseline and factors, and the names of the *)
(* other properties the JSON record carries.                               *)
Patient(id, keys, baseline, factors) ==
    [id |-> id, keys |-> keys, baseline |-> baseline, factors |-> factors]

(* The properties of a PhiPatient and of a ResearchPatient besides id,     *)
(* baseline and factors; history is optional.                              *)
PhiKeys == {"name", "sex", "dob", "address", "deviceModel", "history"}

ResearchKeys == {"displayName", "sex", "age", "deviceModel"}

Baseline(c, r, t, l) ==
    Some([coilOffsetDeg |-> c, chargeRateC |-> r, tempC |-> t, load_mA |-> l])

Factors(m, r, t, l) == Some([misalign |-> m, rate |-> r, temp |-> t, load |-> l])

ResearchCatalogue ==
    << Patient("A1", ResearchKeys, Baseline(12, 120, 39, 300), Factors(12, 10, 8, 10)),
       Patient("R2", ResearchKeys \cup {"name", "history"},
               Baseline(45, 250, 70, 600), Some([rate |-> 20])),
       Patient("R3", ResearchKeys, Baseline(20, 150, 45, 400), Factors(0, 0, 0, 0)),
       Patient("R4", ResearchKeys, Baseline(3, 80, 36, 100), Factors(0, 0, 10, 10)),
       Patient("R5", ResearchKeys, Baseline(15, 160, 48, 350), Factors(15, 5, 10, 20)) >>

PhiCatalogue ==
    << Patient("A1", PhiKeys, Baseline(8, 100, 37, 200), Factors(20, 20, 20, 20)),
       Patient("P2", PhiKeys \ {"history"}, Some([coilOffsetDeg |-> 10]), None),
       Patient("P3", PhiKeys, Baseline(120, 180, 50, 450), Factors(-30, 10, 10, 10)),
       Patient("P4", PhiKeys, Baseline(300, 20, 15, 0), Factors(10, 30, 0, 0)),
       Patient("P5", PhiKeys, Baseline(30, 200, 60, 500), None) >>

Prefix(seq, n) == SubSeq(seq, 1, Min(n, Len(seq)))

---------------------------------------------------------------------------
(* Requests.                                                               *)

XRoleHeaders == {None, Some("CLINICIAN"), Some("engineer")}

(* The x-role headers sent with GET /patients.                             *)
PatientsHeaders ==
    XRoleHeaders
      \cup {Some(""), Some("clinician"), Some("Clinician"), Some("admin"),
            Some("clinicians")}

PatientIds ==
    {NoId, NumericId, Id(""), Id("zz"), Id("A1"), Id("R2"), Id("R3"), Id("R4"),
     Id("R5"), Id("P2"), Id("P3"), Id("P4"), Id("P5")}

Body(pid, c, r, t, l, from, to, step) ==
    [patientId |-> pid, coilOffsetDeg |-> c, chargeRateC |-> r, tempC |-> t,
     load_mA |-> l, from |-> from, to |-> to, step |-> step]

SimulateBodies ==
    { Body(pid, c, r, t, l, Undefined, Undefined, Undefined) :
        pid \in PatientIds,
        c \in {Undefined, Num(0), Num(30), Num(31)},
        r \in {Undefined, Num(200), NotANumber},
        t \in {Undefined, Num(60), Num(14)},
        l \in {Undefined, Num(490), Num(500), Num(501)} }

SweepRanges ==
    { <<Undefined, Undefined, Undefined>>, <<Num(0), Num(20), Num(1)>>,
      <<Num(5), Num(10), Num(2)>>, <<Num(-3), Num(-5), Num(0)>> }

SweepBodies ==
    { Body(pid, c, r, t, l, rg[1], rg[2], rg[3]) :
        pid \in PatientIds,
        c \in {Undefined, Num(12), Num(31)},
        r \in {Undefined, Num(200)},
        t \in {Undefined, NotANumber},
        l \in {Undefined, Num(490)},
        rg \in SweepRanges }

(* A GET carries no body.                                                  *)
NoBody ==
    Body(NoId, Undefined, Undefined, Undefined, Undefined,
         Undefined, Undefined, Undefined)

Requests ==
    { [path |-> "/simulate", xrole |-> h, body |-> b] :
        h \in XRoleHeaders, b \in SimulateBodies }
    \cup
    { [path |-> "/simulate/sweep", xrole |-> h, body |-> b] :
        h \in XRoleHeaders, b \in SweepBodies }
    \cup
    { [path |-> "/patients", xrole |-> h, body |-> NoBody] :
        h \in PatientsHeaders }

---------------------------------------------------------------------------
(* The service: a request arrives, its handler runs to the response, the   *)
(* response is sent.  Nothing of a request outlives it.                    *)

(* The two lists as a handler leaves them.  Object.assign(p.baseline,      *)
(* body) in place of the copy { ...base, ...p.baseline }: the fields of    *)
(* the request are written into the stored baseline of the entity named.   *)
StoreAfter_BaselineAssigned(r) ==
    LET assigned(list) ==
            [i \in 1..Len(list) |->
                IF Truthy(r.body.patientId) /\ list[i].id = r.body.patientId.s
                THEN [list[i] EXCEPT !.baseline =
                        Some([f \in InputFields |->
                                Coalesce(r.body[f], BaseOf(Some(list[i]))[f])])]
                ELSE list[i]]
    IN  IF getRole(r) = "clinician"
        THEN [phi |-> assigned(phiPatients), research |-> researchPatients]
        ELSE [phi |-> phiPatients, research |-> assigned(researchPatients)]

(* The two lists as a handler leaves them: buildInputs copies the baseline *)
(* into a fresh object, simulate multiplies into its own w and only reads  *)
(* factors, the sweep copies inputsBase for every point, and no statement  *)
(* assigns to a list or to a record of one.                                *)
StoreAfter(r) == [phi |-> phiPatients, research |-> researchPatients]

---------------------------------------------------------------------------
(* The frontend.  App holds the four shared sliders, the Affect routing,   *)
(* the auto-run and Remember flags and the slider gate; each of the two    *)
(* RolePanels holds its selection, its held inputs, its refs, its result   *)
(* and its curves.  One step of the model is one event (a user's action,   *)
(* a response, a timer) together with the renders and effects it causes:   *)
(* React runs the effects of a commit before it handles the next event.    *)
(* In this part chargeRateC is in hundredths and tempC in tenths of a      *)
(* degree (the fast preset is 37.5).                                       *)

Roles == <<"clinician", "engineer">>

RoleSet == {"clinician", "engineer"}

Affects == {"both", "clinician", "engineer"}

Vec(c, r, t, l) ==
    [coilOffsetDeg |-> c, chargeRateC |-> r, tempC |-> t, load_mA |-> l]

(* useState(5), useState(1.0), useState(37.0), useState(200)               *)
InitialSliders == Vec(5, 100, 370, 200)

(* applyPreset                                                             *)
Presets ==
    [nominal |-> Vec(5, 100, 370, 200), fast |-> Vec(8, 160, 375, 240),
     highTemp |-> Vec(8, 120, 390, 220)]

(* The lists GET /patients answers each panel with: id and baseline are    *)
(* all the panels read of a record here.                                   *)
PanelPatients ==
    [clinician |-> << [id |-> "P1", baseline |-> Vec(5, 100, 370, 200)],
                      [id |-> "P2", baseline |-> Vec(10, 140, 380, 300)] >>,
     engineer  |-> << [id |-> "R1", baseline |-> Vec(12, 120, 390, 300)],
                      [id |-> "R2", baseline |-> Vec(3, 80, 360, 100)] >>]

(* The values a slider is dragged to.                                      *)
SliderStops == [coilOffsetDeg |-> {20}, load_mA |-> {400}]

(* const panelTargeted = affect === "both" || affect === role              *)
panelTargeted(a, role) == a = "both" \/ a = role

(* The curves of a panel; a curve is None ([]) or the data of a sweep,     *)
(* told apart by the request that was answered.                            *)
CurveNames == {"curveCoil", "curveCharge", "curveTemp", "curveLoad", "curveB"}

NoCurves == [k \in CurveNames \cup {"curveFinal"} |-> None]

NoChange == [coil |-> FALSE, charge |-> FALSE, temp |-> FALSE, load |-> FALSE]

(* The state of a RolePanel as its useState and useRef calls create it.    *)
NewPanel(s) ==
    [patients |-> << >>, patientId |-> "", compareId |-> "",
     heldInputs |-> s, baselineRef |-> None, lastAdoptedRef |-> "",
     changed |-> NoChange, result |-> None, loading |-> FALSE,
     curves |-> NoCurves, curveLoading |-> FALSE]

NoOverlay == [cur |-> None, old |-> {}]

(* The frontend's state as one record.                                     *)
Ui ==
    [sliders |-> sliders, affect |-> affect, autoRun |-> autoRun,
     rememberSelection |-> rememberSelection,
     hasAnySelection |-> hasAnySelection, localStorage |-> localStorage,
     panel |-> panel, manual |-> manual, overlay |-> overlay]

(* patients.find((p) => String(p.id) === String(patientId))                *)
selected(u, role) ==
    LET list == u.panel[role].patients
        hits == {i \in 1..Len(list) : list[i].id = u.panel[role].patientId}
    IN  IF hits = {} THEN None
        ELSE Some(list[CHOOSE i \in hits : \A j \in hits : i <= j])

(* effCoil, effCharge, effTemp, effLoad                                    *)
eff(u, role) ==
    IF panelTargeted(u.affect, role) THEN u.sliders
    ELSE u.panel[role].heldInputs

(* How often the page is reloaded.                                         *)
MaxReloads == 1

(* The ids a select can be set to.                                         *)
UiIds == {"", "P1", "P2", "R1", "R2"}

(* The effects of a RolePanel, each as the change it makes to the state.   *)

(* useEffect(..., [selected]): a newly selected record's baseline goes     *)
(* into baselineRef, and the curves and the result are emptied.            *)
baselineEffect(u0, u, role) ==
    LET sel == selected(u, role)
    IN  IF sel # None /\ sel # selected(u0, role)
        THEN [u EXCEPT !.panel[role].baselineRef = Some(sel[1].baseline),
                       !.panel[role].curves = NoCurves,
                       !.panel[role].result = None]
        ELSE u

(* useEffect(..., [selected, onAdoptBaseline]): once per newly selected    *)
(* record, onAdoptBaseline(selected.baseline); App's onAdoptBaseline sets  *)
(* the four sliders.                                                       *)
adoptEffect(u, role) ==
    LET sel == selected(u, role)
    IN  IF sel # None /\ u.panel[role].lastAdoptedRef # sel[1].id
        THEN [u EXCEPT !.sliders = sel[1].baseline,
                       !.panel[role].lastAdoptedRef = sel[1].id]
        ELSE u

(* The held inputs following the sliders whether or not the panel is       *)
(* targeted.                                                               *)
heldEffect_Always(u, role) == [u EXCEPT !.panel[role].heldInputs = u.sliders]

(* if (panelTargeted) setHeldInputs({ coilOffsetDeg, ... })                *)
heldEffect(u, role) ==
    IF panelTargeted(u.affect, role)
    THEN [u EXCEPT !.panel[role].heldInputs = u.sliders]
    ELSE u

(* The effect that compares the effective inputs with the baseline ran     *)
(* and called setChanged: its dependencies changed, there is a baseline    *)
(* and the panel is targeted.                                              *)
changedSet(u0, u, role) ==
    /\ \/ panelTargeted(u0.affect, role) # panelTargeted(u.affect, role)
       \/ eff(u0, role) # eff(u, role)
    /\ u.panel[role].baselineRef # None
    /\ panelTargeted(u.affect, role)

changedEffect(u0, u, role) ==
    IF changedSet(u0, u, role)
    THEN LET b == u.panel[role].baselineRef[1]
             e == eff(u, role)
         IN  [u EXCEPT !.panel[role].changed =
                [coil   |-> e.coilOffsetDeg # b.coilOffsetDeg,
                 charge |-> e.chargeRateC # b.chargeRateC,
                 temp   |-> e.tempC # b.tempC,
                 load   |-> e.load_mA # b.load_mA]]
    ELSE u

(* The stored pair left alone when Remember is turned off.                 *)
storageEffect_KeepWhenOff(u, role) ==
    IF u.rememberSelection
    THEN [u EXCEPT !.localStorage.last[role] =
            Some([patientId |-> u.panel[role].patientId,
                  compareId |-> u.panel[role].compareId])]
    ELSE u

(* The effects on wpt_last_<role>_v1: setItem({patientId, compareId})      *)
(* while remember is on, removeItem when it is off.                        *)
storageEffect(u, role) ==
    IF u.rememberSelection
    THEN [u EXCEPT !.localStorage.last[role] =
            Some([patientId |-> u.panel[role].patientId,
                  compareId |-> u.panel[role].compareId])]
    ELSE [u EXCEPT !.localStorage.last[role] = None]

(* The restore effect, run on mount and when remember changes: with        *)
(* remember on, a stored patientId, and for the engineer a stored          *)
(* compareId, go into the panel.                                           *)
restoreEffect(u, role) ==
    LET saved == u.localStorage.last[role]
    IN  IF ~u.rememberSelection \/ saved = None THEN u
        ELSE LET withId ==
                     IF saved[1].patientId # ""
                     THEN [u EXCEPT !.panel[role].patientId = saved[1].patientId]
                     ELSE u
             IN  IF role = "engineer" /\ saved[1].compareId # ""
                 THEN [withId EXCEPT !.panel[role].compareId = saved[1].compareId]
                 ELSE withId

(* What an overlay run reads when its effect starts it.                    *)
overlayDeps(u, role) ==
    [patientId |-> u.panel[role].patientId,
     compareId |-> u.panel[role].compareId,
     autoRun   |-> u.autoRun,
     effCharge |-> eff(u, role).chargeRateC,
     effTemp   |-> eff(u, role).tempC,
     effLoad   |-> eff(u, role).load_mA]

(* The cleanup of the overlay effect: clearTimeout(t); ctrl.abort().       *)
superseded(run) == [run EXCEPT !.aborted = TRUE]

(* The debounced overlay effect: when a dependency changed, the cleanup    *)
(* of the run before (a pending timer is cleared, a run in flight is       *)
(* aborted) and, with a patientId, auto-run on and a baseline, a new       *)
(* timer.                                                                  *)
overlayEffect(u0, u, role) ==
    IF overlayDeps(u0, role) = overlayDeps(u, role) /\ ~changedSet(u0, u, role)
    THEN u
    ELSE LET p    == u.panel[role]
             was  == u.overlay[role]
             kept == IF was.cur # None /\ was.cur[1].phase \notin {"timer", "done"}
                     THEN was.old \cup {superseded(was.cur[1])}
                     ELSE was.old
             new  == IF p.patientId # "" /\ u.autoRun /\ p.baselineRef # None
                     THEN Some([n |-> 0, phase |-> "timer", aborted |-> FALSE,
                                patientId |-> p.patientId,
                                compareId |-> p.compareId,
                                changed |-> p.changed,
                                base |-> p.baselineRef[1],
                                effCharge |-> eff(u, role).chargeRateC,
                                effTemp |-> eff(u, role).tempC,
                                effLoad |-> eff(u, role).load_mA])
                     ELSE None
         IN  [u EXCEPT !.overlay[role] = [cur |-> new, old |-> kept]]

(* The one element of a singleton set.                                     *)
Only(S) == CHOOSE x \in S : TRUE

(* The renders and effects an event causes, from the state u0 before the   *)
(* event and the state u its handler left: the panels in the order App     *)
(* renders them, the effects in the order RolePanel declares them.         *)
settle(u0, u) ==
    Only({ overlayEffect(u0, overlayEffect(u0, a5, Roles[1]), Roles[2]) :
      a5 \in { storageEffect(storageEffect(a4, Roles[1]), Roles[2]) :
      a4 \in { changedEffect(u0, changedEffect(u0, a3, Roles[1]), Roles[2]) :
      a3 \in { heldEffect(heldEffect(a2, Roles[1]), Roles[2]) :
      a2 \in { adoptEffect(adoptEffect(a1, Roles[1]), Roles[2]) :
      a1 \in { baselineEffect(u0, baselineEffect(u0, a0, Roles[1]), Roles[2]) :
      a0 \in {u} } } } } } })

(* The frontend as the page load leaves it: App's useState calls, an       *)
(* empty localStorage, two mounted panels that have not got their          *)
(* patients yet, no run in flight.                                         *)
Loaded(store) ==
    [sliders |-> InitialSliders, affect |-> "both", autoRun |-> TRUE,
     rememberSelection |-> FALSE, hasAnySelection |-> FALSE,
     localStorage |-> store,
     panel |-> [r \in RoleSet |-> NewPanel(InitialSliders)],
     manual |-> [r \in RoleSet |-> None],
     overlay |-> [r \in RoleSet |-> NoOverlay]]

EmptyStorage == [last |-> [r \in RoleSet |-> None], runs |-> << >>]

(* History of a page: whether a non-empty profile was picked since it      *)
(* loaded, how often it was reloaded, the sliders at the last moment each  *)
(* panel was targeted, and how many overlay timers fired in each panel.    *)
NoHistory ==
    [picked |-> FALSE, reloads |-> 0,
     lastTargeted |-> [r \in RoleSet |-> InitialSliders],
     fired |-> [r \in RoleSet |-> 0]]

After(u, h) ==
    [h EXCEPT !.lastTargeted =
        [r \in RoleSet |->
            IF panelTargeted(u.affect, r) THEN u.sliders ELSE h.lastTargeted[r]]]

FrontendInit ==
    /\ sliders = InitialSliders
    /\ affect = "both"
    /\ autoRun = TRUE
    /\ rememberSelection = FALSE
    /\ hasAnySelection = FALSE
    /\ localStorage = EmptyStorage
    /\ panel = [r \in RoleSet |-> NewPanel(InitialSliders)]
    /\ manual = [r \in RoleSet |-> None]
    /\ overlay = [r \in RoleSet |-> NoOverlay]
    /\ history = NoHistory

(* The state an event leaves: what its handler set, then the effects.      *)
Commit(u, h) ==
    \E v \in {settle(Ui, u)} :
        /\ sliders' = v.sliders
        /\ affect' = v.affect
        /\ autoRun' = v.autoRun
        /\ rememberSelection' = v.rememberSelection
        /\ hasAnySelection' = v.hasAnySelection
        /\ localStorage' = v.localStorage
        /\ panel' = v.panel
        /\ manual' = v.manual
        /\ overlay' = v.overlay
        /\ history' = After(v, h)
        /\ UNCHANGED backendVars

IdsOf(list) == {list[i].id : i \in 1..Len(list)}

(* The gate that follows the selection both ways.                          *)
handleSelectionChange_TwoWay(u, has) == [u EXCEPT !.hasAnySelection = has]

(* if (has) setHasAnySelection(true)                                       *)
handleSelectionChange(u, has) ==
    IF has THEN [u EXCEPT !.hasAnySelection = TRUE] ELSE u

(* GET /patients answered: hydrate(data).                                  *)
PatientsLoaded(role) ==
    /\ panel[role].patients = << >>
    /\ Commit([Ui EXCEPT !.panel[role].patients = PanelPatients[role]], history)

(* onChange of the patient select.                                         *)
SelectPatient(role, id) ==
    /\ id \in IdsOf(panel[role].patients) \cup {""}
    /\ id # panel[role].patientId
    /\ LET u == [Ui EXCEPT !.panel[role].patientId = id,
                           !.panel[role].compareId = "",
                           !.panel[role].result = None,
                           !.panel[role].curves = NoCurves]
       IN  Commit(handleSelectionChange(u, id # ""),
                  [history EXCEPT !.picked = @ \/ id # ""])

(* onChange of the compare select, which the engineer's panel shows once   *)
(* a profile is selected.                                                  *)
SelectCompare(role, id) ==
    /\ role = "engineer"
    /\ panel[role].patientId # ""
    /\ id \in (IdsOf(panel[role].patients) \ {panel[role].patientId}) \cup {""}
    /\ id # panel[role].compareId
    /\ Commit([Ui EXCEPT !.panel[role].compareId = id], history)

(* onChange of a slider; the sliders are disabled while                    *)
(* sliderDisabled = !hasAnySelection.                                      *)
SetSlider(f, v) ==
    /\ hasAnySelection
    /\ sliders[f] # v
    /\ Commit([Ui EXCEPT !.sliders[f] = v], history)

applyPreset(kind) ==
    /\ sliders # Presets[kind]
    /\ Commit([Ui EXCEPT !.sliders = Presets[kind]], history)

SetAffect(a) ==
    /\ a # affect
    /\ Commit([Ui EXCEPT !.affect = a], history)

SetAutoRun ==
    /\ Commit([Ui EXCEPT !.autoRun = ~autoRun], history)

(* The Remember checkbox: setRememberSelection(e.target.checked); the      *)
(* restore effect of each panel runs first of the effects that depend on   *)
(* remember.                                                               *)
SetRemember ==
    /\ \E u \in {[Ui EXCEPT !.rememberSelection = ~rememberSelection]} :
          Commit(restoreEffect(restoreEffect(u, Roles[1]), Roles[2]), history)

(* The Reset to Baseline button, disabled={!selected || !panelTargeted}:   *)
(* onAdoptBaseline(selected.baseline).                                     *)
ResetToBaseline(role) ==
    /\ selected(Ui, role) # None
    /\ panelTargeted(affect, role)
    /\ sliders # selected(Ui, role)[1].baseline
    /\ Commit([Ui EXCEPT !.sliders = selected(Ui, role)[1].baseline], history)

(* The page is reloaded: React's state and the module's patientsCache      *)
(* start again, localStorage stays, and the panels mount with              *)
(* remember = false.                                                       *)
Reload ==
    /\ history.reloads < MaxReloads
    /\ LET u == Loaded(localStorage)
           v == restoreEffect(restoreEffect(u, Roles[1]), Roles[2])
           w == storageEffect(storageEffect(v, Roles[1]), Roles[2])
       IN  /\ sliders' = w.sliders
           /\ affect' = w.affect
           /\ autoRun' = w.autoRun
           /\ rememberSelection' = w.rememberSelection
           /\ hasAnySelection' = w.hasAnySelection
           /\ localStorage' = w.localStorage
           /\ panel' = w.panel
           /\ manual' = w.manual
           /\ overlay' = w.overlay
    /\ history' = [NoHistory EXCEPT !.reloads = history.reloads + 1]
    /\ UNCHANGED backendVars

(* Manual runs.  A run in flight holds what runSimulation's closure holds: *)
(* the patientId, compareId and effective inputs of the render in which    *)
(* Run was clicked, and which of its two requests is awaited.              *)

(* How many rows the run log grows to.                                     *)
MaxLogRows == 2

(* What POST /simulate answers the panel with: a body with a score in      *)
(* hundredths or null (JSON has no NaN) and a status, a status code that   *)
(* is not OK, or no answer at all.                                         *)
SimulateReplies ==
    { [kind |-> "ok", score |-> Some(42), status |-> "AMBER"],
      [kind |-> "ok", score |-> None, status |-> "GREEN"],
      [kind |-> "http", score |-> None, status |-> ""],
      [kind |-> "network", score |-> None, status |-> ""] }

SweepReplies == {"ok", "http", "network"}

(* Number(json?.score ?? 0), as an optional number: null becomes 0.        *)
LoggedScore(score) == IF score = None THEN Some(0) ELSE score

(* appendLog: rows = loadLogs(); rows.push(row); saveLogs(rows)            *)
appendLog(store, row) == [store EXCEPT !.runs = Append(store.runs, row)]

(* The Run button, disabled={!patientId || loading}: runSimulation up to   *)
(* its first await.                                                        *)
StartRun(role) ==
    /\ panel[role].patientId # ""
    /\ ~panel[role].loading
    /\ Len(localStorage.runs) < MaxLogRows
    /\ Commit([Ui EXCEPT
          !.panel[role].loading = TRUE,
          !.manual[role] =
              Some([stage |-> "simulate",
                    patientId |-> panel[role].patientId,
                    compareId |-> panel[role].compareId,
                    inputs |-> eff(Ui, role)])], history)

(* POST /simulate is answered: runSimulation from its first await to its   *)
(* second, or to its end when the answer is not OK or does not come.       *)
SimulateResponds(role, reply) ==
    /\ manual[role] # None
    /\ manual[role][1].stage = "simulate"
    /\ LET run == manual[role][1]
           row == [role |-> role, profileId |-> run.patientId,
                   compareId |-> run.compareId, inputs |-> run.inputs,
                   outputs |-> [score |-> LoggedScore(reply.score),
                                status |-> reply.status]]
       IN  IF reply.kind = "ok"
           THEN Commit([Ui EXCEPT
                   !.panel[role].result =
                       Some([patientId |-> run.patientId,
                             score |-> reply.score, status |-> reply.status]),
                   !.localStorage = appendLog(localStorage, row),
                   !.manual[role] = Some([run EXCEPT !.stage = "sweep"])],
                   history)
           ELSE Commit([Ui EXCEPT !.panel[role].loading = FALSE,
                                  !.manual[role] = None], history)

(* The final POST /simulate/sweep is answered: runSimulation from its      *)
(* second await to its end.                                                *)
SweepResponds(role, reply) ==
    /\ manual[role] # None
    /\ manual[role][1].stage = "sweep"
    /\ LET run == manual[role][1]
           data == IF reply = "ok"
                   THEN Some([patientId |-> run.patientId, inputs |-> run.inputs])
                   ELSE None
       IN  IF reply = "network"
           THEN Commit([Ui EXCEPT !.panel[role].loading = FALSE,
                                  !.manual[role] = None], history)
           ELSE Commit([Ui EXCEPT !.panel[role].curves.curveFinal = data,
                                  !.panel[role].loading = FALSE,
                                  !.manual[role] = None], history)

(* The Clear Logs button: clearLogs.                                       *)
ClearLogs ==
    /\ localStorage.runs # << >>
    /\ Commit([Ui EXCEPT !.localStorage.runs = << >>], history)

(* Overlay runs.  A run is the callback of the 200 ms timer of one start   *)
(* of the overlay effect, with the values its closure holds; it awaits     *)
(* one sweep at a time, in the order of Steps.  A run gets its number      *)
(* when its timer fires.                                                   *)

(* How many overlay timers fire in a panel.                                *)
MaxOverlayRuns == 2

Steps == <<"curveCoil", "curveCharge", "curveTemp", "curveLoad", "curveB">>

StepOf(phase) == CHOOSE k \in 1..Len(Steps) : Steps[k] = phase

(* if (changed.coil) ... if (changed.charge) ... if (changed.temp) ...     *)
(* if (changed.load) ... if (role === "engineer" && compareId)             *)
Wanted(run, role, k) ==
    CASE k = 1 -> run.changed.coil
      [] k = 2 -> run.changed.charge
      [] k = 3 -> run.changed.temp
      [] k = 4 -> run.changed.load
      [] OTHER -> role = "engineer" /\ run.compareId # ""

(* The callback from step k on, up to its next await or its end: a step    *)
(* that is not wanted empties its curve (else setCurveCoil([])), a wanted  *)
(* one sends its request, and after the last step finally sets             *)
(* curveLoading to false.                                                  *)
RECURSIVE Advance(_, _, _, _)
Advance(p, run, role, k) ==
    IF k > Len(Steps)
    THEN [p |-> [p EXCEPT !.curveLoading = FALSE],
          run |-> [run EXCEPT !.phase = "done"]]
    ELSE IF Wanted(run, role, k)
    THEN [p |-> p, run |-> [run EXCEPT !.phase = Steps[k]]]
    ELSE Advance([p EXCEPT !.curves[Steps[k]] = None], run, role, k + 1)

(* The 200 ms timer of the current run fires.                              *)
TimerFires(role) ==
    /\ overlay[role].cur # None
    /\ overlay[role].cur[1].phase = "timer"
    /\ history.fired[role] < MaxOverlayRuns
    /\ LET run == [overlay[role].cur[1] EXCEPT !.n = history.fired[role] + 1]
           a == Advance([panel[role] EXCEPT !.curveLoading = TRUE], run, role, 1)
       IN  Commit([Ui EXCEPT !.panel[role] = a.p,
                             !.overlay[role].cur = Some(a.run)],
                  [history EXCEPT !.fired[role] = @ + 1])

(* The sweep the current run awaits is answered: with data, with a status  *)
(* that is not OK (an empty curve), or not at all (the catch empties the   *)
(* five curves).                                                           *)
OverlayResponds(role, reply) ==
    /\ overlay[role].cur # None
    /\ overlay[role].cur[1].phase \in {Steps[k] : k \in 1..Len(Steps)}
    /\ LET run == overlay[role].cur[1]
           k == StepOf(run.phase)
           data == IF reply = "ok"
                   THEN Some([run |-> run.n,
                              patientId |-> IF k = Len(Steps) THEN run.compareId
                                            ELSE run.patientId])
                   ELSE None
           a == Advance([panel[role] EXCEPT !.curves[run.phase] = data],
                        run, role, k + 1)
           failed == [panel[role] EXCEPT
                        !.curves = [c \in DOMAIN @ |->
                                       IF c = "curveFinal" THEN @[c] ELSE None],
                        !.curveLoading = FALSE]
       IN  IF reply = "network"
           THEN Commit([Ui EXCEPT
                   !.panel[role] = failed,
                   !.overlay[role].cur = Some([run EXCEPT !.phase = "done"])],
                   history)
           ELSE Commit([Ui EXCEPT !.panel[role] = a.p,
                                  !.overlay[role].cur = Some(a.run)], history)

(* The fetch of a superseded run rejects with an AbortError: the catch     *)
(* sets no curve, finally sets curveLoading to false.                      *)
AbortRejects(role) ==
    \E run \in overlay[role].old :
        Commit([Ui EXCEPT !.panel[role].curveLoading = FALSE,
                          !.overlay[role].old = @ \ {run}], history)

---------------------------------------------------------------------------
(* The states and steps of the service, and the specifications.           *)

NoRequest == [path |-> "", xrole |-> None, body |-> << >>]

NoResponse == [status |-> 0, body |-> << >>]

Init ==
    /\ \E n \in 1..MaxPatients :
          /\ phiPatients = Prefix(PhiCatalogue, n)
          /\ researchPatients = Prefix(ResearchCatalogue, n)
    /\ pc = "idle"
    /\ req = NoRequest
    /\ resp = NoResponse
    /\ calls = << >>
    /\ FrontendInit

Receive ==
    /\ pc = "idle"
    /\ \E r \in Requests : req' = r
    /\ pc' = "pending"
    /\ UNCHANGED <<phiPatients, researchPatients, resp, calls>>
    /\ UNCHANGED frontendVars

PostSimulate ==
    /\ pc = "pending"
    /\ req.path = "/simulate"
    /\ LET h == HandleSimulate(req)
       IN  resp' = h.resp /\ calls' = h.calls
    /\ LET after == StoreAfter(req)
       IN  phiPatients' = after.phi /\ researchPatients' = after.research
    /\ pc' = "done"
    /\ UNCHANGED req
    /\ UNCHANGED frontendVars

PostSimulateSweep ==
    /\ pc = "pending"
    /\ req.path = "/simulate/sweep"
    /\ LET h == HandleSweep(req)
       IN  resp' = h.resp /\ calls' = h.calls
    /\ LET after == StoreAfter(req)
       IN  phiPatients' = after.phi /\ researchPatients' = after.research
    /\ pc' = "done"
    /\ UNCHANGED req
    /\ UNCHANGED frontendVars

GetPatients ==
    /\ pc = "pending"
    /\ req.path = "/patients"
    /\ LET h == HandlePatients(req)
       IN  resp' = h.resp /\ calls' = h.calls
    /\ pc' = "done"
    /\ UNCHANGED <<phiPatients, researchPatients, req>>
    /\ UNCHANGED frontendVars

Send ==
    /\ pc = "done"
    /\ pc' = "idle"
    /\ req' = NoRequest
    /\ resp' = NoResponse
    /\ calls' = << >>
    /\ UNCHANGED <<phiPatients, researchPatients>>
    /\ UNCHANGED frontendVars

Next == Receive \/ GetPatients \/ PostSimulate \/ PostSimulateSweep \/ Send

Spec == Init /\ [][Next]_vars

(* The page just loaded, the service idle.                                 *)
AppInit ==
    /\ FrontendInit
    /\ phiPatients = PhiCatalogue
    /\ researchPatients = ResearchCatalogue
    /\ pc = "idle"
    /\ req = NoRequest
    /\ resp = NoResponse
    /\ calls = << >>

(* The slider gate: profiles are picked and put back, sliders are moved,   *)
(* the page is reloaded.                                                   *)
GateNext ==
    \/ \E role \in RoleSet : PatientsLoaded(role)
    \/ \E role \in RoleSet, id \in UiIds : SelectPatient(role, id)
    \/ \E f \in DOMAIN SliderStops : \E v \in SliderStops[f] : SetSlider(f, v)
    \/ Reload

GateSpec == AppInit /\ [][GateNext]_vars

(* The Affect routing: profiles are picked, the sliders are moved by hand, *)
(* by a preset and by Reset to Baseline, and Affect is switched.           *)
RoutingNext ==
    \/ \E role \in RoleSet : PatientsLoaded(role)
    \/ \E role \in RoleSet, id \in UiIds : SelectPatient(role, id)
    \/ \E f \in DOMAIN SliderStops : \E v \in SliderStops[f] : SetSlider(f, v)
    \/ \E kind \in DOMAIN Presets : applyPreset(kind)
    \/ \E a \in Affects : SetAffect(a)
    \/ \E role \in RoleSet : ResetToBaseline(role)

RoutingSpec == AppInit /\ [][RoutingNext]_vars

(* Remember selection: profiles and compare profiles are picked, the       *)
(* checkbox is switched, the page is reloaded.                             *)
RememberNext ==
    \/ \E role \in RoleSet : PatientsLoaded(role)
    \/ \E role \in RoleSet, id \in UiIds : SelectPatient(role, id)
    \/ \E role \in RoleSet, id \in UiIds : SelectCompare(role, id)
    \/ SetRemember
    \/ Reload

RememberSpec == AppInit /\ [][RememberNext]_vars

(* The other panel has not got its patients.                               *)
Alone(role) == \A other \in RoleSet \ {role} : panel[other].patients = << >>

(* Manual runs in the one panel whose patients have arrived (the other    *)
(* panel's GET /patients is not answered): profiles are picked, a slider   *)
(* is moved, Run is clicked, the two requests of a run are answered, the   *)
(* log is cleared.                                                         *)
RunNext ==
    \/ \E role \in RoleSet : Alone(role) /\ PatientsLoaded(role)
    \/ \E role \in RoleSet, id \in UiIds : Alone(role) /\ SelectPatient(role, id)
    \/ \E f \in DOMAIN SliderStops : \E v \in SliderStops[f] : SetSlider(f, v)
    \/ \E role \in RoleSet : StartRun(role)
    \/ \E role \in RoleSet, reply \in SimulateReplies : SimulateResponds(role, reply)
    \/ \E role \in RoleSet, reply \in SweepReplies : SweepResponds(role, reply)
    \/ ClearLogs

RunSpec == AppInit /\ [][RunNext]_vars

(* Overlay runs in the one panel whose patients have arrived: profiles     *)
(* and compare profiles are picked, sliders are moved, auto-run is         *)
(* switched, timers fire, sweeps are answered or rejected.                 *)
OverlayNext ==
    \/ \E role \in RoleSet : Alone(role) /\ PatientsLoaded(role)
    \/ \E role \in RoleSet, id \in UiIds : Alone(role) /\ SelectPatient(role, id)
    \/ \E role \in RoleSet, id \in UiIds : Alone(role) /\ SelectCompare(role, id)
    \/ \E f \in DOMAIN SliderStops : \E v \in SliderStops[f] : SetSlider(f, v)
    \/ SetAutoRun
    \/ \E role \in RoleSet : TimerFires(role)
    \/ \E role \in RoleSet, reply \in SweepReplies : OverlayResponds(role, reply)
    \/ \E role \in RoleSet : AbortRejects(role)

OverlaySpec == AppInit /\ [][OverlayNext]_vars

---------------------------------------------------------------------------
(* Vocabulary of the properties.                                           *)

Done == pc = "done"

SimulateDone == Done /\ req.path = "/simulate"

SweepDone == Done /\ req.path = "/simulate/sweep"

Ok == resp.status = 200

(* The documented ranges of the InputVector: coilOffsetDeg [0,30],         *)
(* chargeRateC [0.2,2], tempC [15,60], load_mA [0,500].                    *)
InDocumentedRange(inputs) ==
    /\ inputs.coilOffsetDeg >= 0 /\ inputs.coilOffsetDeg <= 30
    /\ inputs.chargeRateC >= 20  /\ inputs.chargeRateC <= 200
    /\ inputs.tempC >= 15        /\ inputs.tempC <= 60
    /\ inputs.load_mA >= 0       /\ inputs.load_mA <= 500

AllPositive(factors) ==
    factors = None \/ \A k \in DOMAIN factors[1] : factors[1][k] > 0

(* The band of a returned score, in hundredths, lower edges inclusive.     *)
BandOf(score) ==
    IF score >= 65 THEN "RED" ELSE IF score >= 35 THEN "AMBER" ELSE "GREEN"

---------------------------------------------------------------------------
(* C1: for every result simulate returns, the status is the band of the    *)
(* returned two-decimal score: RED iff score >= 0.65, AMBER iff            *)
(* 0.35 <= score < 0.65, GREEN iff score < 0.35.                           *)
C1_StatusIsBandOfReturnedScore ==
    \A i \in 1..Len(calls) :
        calls[i].out.score.k = "num"
            => calls[i].out.status = BandOf(calls[i].out.score.v)

(* C2: for in-range inputs, with no factors or all-positive factors, the   *)
(* returned score and telemetry.efficiency lie in [0, 1].                  *)
C2_ScoreAndEfficiencyInUnitInterval ==
    \A i \in 1..Len(calls) :
        (InDocumentedRange(calls[i].inputs) /\ AllPositive(calls[i].factors))
            => /\ calls[i].out.score.k = "num"
               /\ calls[i].out.score.v >= 0
               /\ calls[i].out.score.v <= 100
               /\ calls[i].out.telemetry.efficiency >= 0
               /\ calls[i].out.telemetry.efficiency <= 100

(* An in-range call with positive factors whose score is in the upper      *)
(* part of the interval and whose efficiency is below 1.                   *)
C2_Witness ==
    \E i \in 1..Len(calls) :
        /\ InDocumentedRange(calls[i].inputs)
        /\ calls[i].factors # None
        /\ AllPositive(calls[i].factors)
        /\ calls[i].out.score.v >= 60
        /\ calls[i].out.telemetry.efficiency < 100

---------------------------------------------------------------------------
(* The entity a request names, as the properties see it: the first record  *)
(* with the request's patientId in the list of the caller's role.          *)
Entity == Lookup(req, req.body)

Present(f) == req.body[f].t # "undefined"

(* The value the precedence default < baseline < override gives field f.   *)
Resolved(f) ==
    IF Present(f) THEN req.body[f].v
    ELSE IF Entity # None /\ Entity[1].baseline # None
            /\ f \in DOMAIN Entity[1].baseline[1]
         THEN Entity[1].baseline[1][f]
    ELSE [coilOffsetDeg |-> 5, chargeRateC |-> 100, tempC |-> 37, load_mA |-> 200][f]

(* C3: each field of the resolved inputs is the request's value when the   *)
(* field is present (0 included), else the found entity's baseline value,  *)
(* else the system default {5, 1, 37, 200}; each field on its own.  In a   *)
(* sweep this holds of the three fields the sweep keeps fixed.             *)
C3_ResolverPrecedence ==
    /\ (SimulateDone /\ Ok)
          => \A f \in InputFields : calls[1].inputs[f] = Resolved(f)
    /\ (SweepDone /\ Ok)
          => \A i \in 1..Len(calls) :
                \A f \in InputFields \ {"coilOffsetDeg"} :
                    calls[i].inputs[f] = Resolved(f)

(* A request that overrides coilOffsetDeg with 0 and load_mA, and takes    *)
(* chargeRateC and tempC from a found entity whose baseline differs from   *)
(* the override and from the defaults.                                     *)
C3_Witness ==
    /\ SimulateDone /\ Ok
    /\ req.body.coilOffsetDeg = Num(0)
    /\ req.body.load_mA = Num(490)
    /\ ~Present("chargeRateC") /\ ~Present("tempC")
    /\ Entity # None
    /\ calls[1].inputs =
          [coilOffsetDeg |-> 0, chargeRateC |-> 120, tempC |-> 39, load_mA |-> 490]

(* A field that is present but not a number in its documented range.       *)
Invalid(f) ==
    /\ Present(f)
    /\ \/ req.body[f].t # "number"
       \/ ~InDocumentedRange([SystemDefaults EXCEPT ![f] = req.body[f].v])

(* C4: a /simulate or /simulate/sweep request with a present field that    *)
(* is out of range or not a number gets status 400, and simulate is not    *)
(* called for it.                                                          *)
C4_InvalidFieldRejected ==
    (Done /\ \E f \in InputFields : Invalid(f))
        => resp.status = 400 /\ calls = << >>

(* A sweep request rejected for a coilOffsetDeg just above its range.      *)
C4_Witness ==
    /\ SweepDone
    /\ req.body.coilOffsetDeg = Num(31)
    /\ \A f \in InputFields \ {"coilOffsetDeg"} : ~Invalid(f)
    /\ resp.status = 400

(* C5: every InputVector passed to simulate is in the documented ranges.   *)
C5_SimulateOnlySeesInRangeInputs ==
    \A i \in 1..Len(calls) : InDocumentedRange(calls[i].inputs)

(* The sweep controls the caller asked for, clamped as documented:         *)
(* from = max(0, f), to = max(from, t), step = s if s > 0 else 1, with     *)
(* the defaults 0, 20, 1 for an absent control.                            *)
AskedFrom == Max(0, IF Present("from") THEN req.body.from.v ELSE 0)

AskedTo == Max(AskedFrom, IF Present("to") THEN req.body.to.v ELSE 20)

AskedStep ==
    IF Present("step") /\ req.body.step.v > 0 THEN req.body.step.v ELSE 1

Curve == resp.body.data

(* C6: a sweep runs with, and echoes, the caller's from, to and step after *)
(* clamping, and the curve covers exactly that range.                      *)
C6_SweepUsesCallersRange ==
    (SweepDone /\ Ok)
        => /\ resp.body.from = AskedFrom
           /\ resp.body.to = AskedTo
           /\ resp.body.step = AskedStep
           /\ Len(Curve) >= 1
           /\ Curve[1].deg = AskedFrom
           /\ Curve[Len(Curve)].deg <= AskedTo
           /\ Curve[Len(Curve)].deg + AskedStep > AskedTo

(* The part of C6 that the code keeps: absent controls default to 0, 20,   *)
(* 1.                                                                      *)
C6_DefaultsWhenAbsent ==
    (SweepDone /\ Ok /\ ~Present("from") /\ ~Present("to") /\ ~Present("step"))
        => resp.body.from = 0 /\ resp.body.to = 20 /\ resp.body.step = 1

(* The request with its coilOffsetDeg property removed.                    *)
WithoutCoil == [req EXCEPT !.body.coilOffsetDeg = Undefined]

(* C7: the score of each point {deg: v, score} is the score simulate       *)
(* returns for the resolved inputs with coilOffsetDeg replaced by v and    *)
(* the entity's factors; chargeRateC, tempC and load_mA are the same at    *)
(* every point; the curve is the one the same request gives without its    *)
(* coilOffsetDeg.                                                          *)
C7_SweepVariesCoilOnly ==
    (SweepDone /\ Ok)
        => /\ \A i \in 1..Len(Curve) :
                 Curve[i].score =
                     simulate([coilOffsetDeg |-> Curve[i].deg,
                               chargeRateC   |-> Resolved("chargeRateC"),
                               tempC         |-> Resolved("tempC"),
                               load_mA       |-> Resolved("load_mA")],
                              IF Entity = None THEN None ELSE Entity[1].factors).score
           /\ \A i, j \in 1..Len(calls) :
                 \A f \in InputFields \ {"coilOffsetDeg"} :
                     calls[i].inputs[f] = calls[j].inputs[f]
           /\ Curve = HandleSweep(WithoutCoil).resp.body.data

(* A sweep for a found entity with factors, whose request carries a        *)
(* coilOffsetDeg that differs from the swept values at most points, and    *)
(* whose scores differ along the curve.                                    *)
C7_Witness ==
    /\ SweepDone /\ Ok
    /\ req.body.coilOffsetDeg = Num(12)
    /\ Entity # None /\ Entity[1].factors # None
    /\ Len(Curve) > 1
    /\ Curve[1].score # Curve[Len(Curve)].score

(* C8: a curve is non-empty, starts at the effective from, advances by     *)
(* exactly the effective step (so strictly increases), and never passes    *)
(* the effective to; the effective values are the ones the response        *)
(* echoes.                                                                 *)
C8_CurveShape ==
    (SweepDone /\ Ok)
        => /\ Len(Curve) >= 1
           /\ Curve[1].deg = resp.body.from
           /\ resp.body.step > 0
           /\ \A i \in 1..(Len(Curve) - 1) :
                 Curve[i + 1].deg = Curve[i].deg + resp.body.step
           /\ \A i \in 1..Len(Curve) : Curve[i].deg <= resp.body.to

(* A curve of more than one point whose last point is on the effective to. *)
C8_Witness ==
    /\ SweepDone /\ Ok
    /\ Len(Curve) > 1
    /\ Curve[Len(Curve)].deg = resp.body.to

(* The request asks for from = 0, to = 20, step = 1, each given or left    *)
(* to its default.                                                         *)
AsksZeroToTwenty ==
    /\ ~Present("from") \/ req.body.from = Num(0)
    /\ ~Present("to") \/ req.body.to = Num(20)
    /\ ~Present("step") \/ req.body.step = Num(1)

(* C9: a sweep with from = 0, to = 20, step = 1, given or defaulted,       *)
(* returns the 21 points 0, 1, ..., 20 in that order.                      *)
C9_DefaultSweepHas21Points ==
    (SweepDone /\ Ok /\ AsksZeroToTwenty)
        => /\ Len(Curve) = 21
           /\ \A i \in 1..21 : Curve[i].deg = i - 1

(* A sweep that gives the three controls explicitly as 0, 20, 1.           *)
C9_Witness ==
    /\ SweepDone /\ Ok
    /\ req.body.from = Num(0) /\ req.body.to = Num(20) /\ req.body.step = Num(1)
    /\ Len(Curve) = 21

(* The inputs {coilOffsetDeg: 0, chargeRateC: 1, tempC: 37, load_mA: 200}. *)
NominalInputs ==
    [coilOffsetDeg |-> 0, chargeRateC |-> 100, tempC |-> 37, load_mA |-> 200]

(* C10 as stated: simulate on the nominal inputs with no factors returns   *)
(* score 0.00, status GREEN and efficiency 1.00.                           *)
C10_NominalScoreZero ==
    \A i \in 1..Len(calls) :
        (calls[i].inputs = NominalInputs /\ calls[i].factors = None)
            => /\ calls[i].out.score = Finite(0)
               /\ calls[i].out.status = "GREEN"
               /\ calls[i].out.telemetry.efficiency = 100

(* C10 amended: simulate on the nominal inputs with no factors returns     *)
(* score 0.04 (the load term 0.10 * 200/500), status GREEN and efficiency  *)
(* 1.00.                                                                   *)
C10_NominalScoreFourHundredths ==
    \A i \in 1..Len(calls) :
        (calls[i].inputs = NominalInputs /\ calls[i].factors = None)
            => /\ calls[i].out.score = Finite(4)
               /\ calls[i].out.status = "GREEN"
               /\ calls[i].out.telemetry.efficiency = 100

(* simulate has been called on the nominal inputs with no factors.         *)
C10_Witness ==
    \E i \in 1..Len(calls) :
        calls[i].inputs = NominalInputs /\ calls[i].factors = None

---------------------------------------------------------------------------
(* The top of every documented range.                                      *)
TopOfRange ==
    [coilOffsetDeg |-> 30, chargeRateC |-> 200, tempC |-> 60, load_mA |-> 500]

(* C11: simulate on coilOffsetDeg 30, chargeRateC 2, tempC 60, load_mA 500 *)
(* with no factors has rateRisk = tempRisk = loadRisk = 1, and returns     *)
(* efficiency 0.87, score 0.61 and status AMBER.                           *)
C11_TopOfRangeIsAmber ==
    \A i \in 1..Len(calls) :
        (calls[i].inputs = TopOfRange /\ calls[i].factors = None)
            => /\ rateRisk(calls[i].inputs.chargeRateC) = RiskUnit
               /\ tempRisk(calls[i].inputs.tempC) = RiskUnit
               /\ loadRisk(calls[i].inputs.load_mA) = RiskUnit
               /\ calls[i].out.telemetry.efficiency = 87
               /\ calls[i].out.score = Finite(61)
               /\ calls[i].out.status = "AMBER"

C11_Witness ==
    /\ SimulateDone /\ Ok
    /\ req.body.patientId = NoId
    /\ Len(calls) = 1
    /\ calls[1].inputs = TopOfRange
    /\ calls[1].factors = None
    /\ resp.body.score = Finite(61)

---------------------------------------------------------------------------
(* The base weights as the text of the code gives them, in hundredths, and *)
(* the multiplier of a sub-risk, in tenths, an absent one being 1.         *)
BaseHundredths == [misalign |-> 45, rate |-> 25, temp |-> 20, load |-> 10]

Multiplier(factors, k) ==
    IF factors = None THEN 10
    ELSE IF k \in DOMAIN factors[1] THEN factors[1][k] ELSE 10

Weighted(factors, k) == BaseHundredths[k] * Multiplier(factors, k)

WeightedTotal(factors) ==
    Weighted(factors, "misalign") + Weighted(factors, "rate")
      + Weighted(factors, "temp") + Weighted(factors, "load")

(* C12: for factors whose multipliers are all positive (an absent one      *)
(* counting as 1), each weight that enters the score is its base weight    *)
(* times its multiplier over the sum of the four such products: the        *)
(* weights are positive and sum to 1; with no factors they are exactly     *)
(* 0.45, 0.25, 0.20 and 0.10.                                              *)
C12_WeightsRenormalized ==
    \A i \in 1..Len(calls) :
        LET f == calls[i].factors
            w == calls[i].w
        IN  AllPositive(f)
              => /\ \A k \in RiskNames :
                      /\ w[k].den > 0 /\ w[k].num > 0
                      /\ w[k].den = w.misalign.den
                      /\ w[k].num * WeightedTotal(f) = Weighted(f, k) * w[k].den
                 /\ w.misalign.num + w.rate.num + w.temp.num + w.load.num
                      = w.misalign.den
                 /\ f = None
                      => \A k \in RiskNames :
                            w[k].num * 100 = BaseHundredths[k] * w[k].den

(* Factors that carry the rate multiplier 2 alone: the rate weight is      *)
(* 0.50/1.25 = 0.40.                                                       *)
C12_Witness ==
    /\ Done /\ Ok
    /\ Len(calls) >= 1
    /\ calls[1].factors # None
    /\ AllPositive(calls[1].factors)
    /\ DOMAIN calls[1].factors[1] # RiskNames
    /\ calls[1].w.rate.num * 5 = 2 * calls[1].w.rate.den

---------------------------------------------------------------------------
(* C13: whatever factors simulate is given, zero and negative multipliers  *)
(* included, the weights that enter the score sum to 1 and the returned    *)
(* score is a number.                                                      *)
C13_WeightsSumToOneAndScoreIsNumber ==
    \A i \in 1..Len(calls) :
        LET w == calls[i].w
        IN  /\ \A k \in RiskNames : w[k].den # 0 /\ w[k].den = w.misalign.den
            /\ w.misalign.num + w.rate.num + w.temp.num + w.load.num
                 = w.misalign.den
            /\ calls[i].out.score.k = "num"

---------------------------------------------------------------------------
(* The input that drives each sub-risk, and values to put in its place.    *)
DriverOf ==
    [misalign |-> "coilOffsetDeg", rate |-> "chargeRateC",
     temp |-> "tempC", load |-> "load_mA"]

DriverValues ==
    [coilOffsetDeg |-> {0, 20, 30, 120},
     chargeRateC   |-> {20, 100, 150, 200, 250},
     tempC         |-> {15, 37, 50, 60, 70},
     load_mA       |-> {0, 100, 500, 600}]

ZeroFactor(factors, k) ==
    factors # None /\ k \in DOMAIN factors[1] /\ factors[1][k] = 0

(* A weight num/den that is positive, +Infinity (num/0, num > 0) included. *)
PositiveWeight(w) == w.num * w.den > 0 \/ (w.den = 0 /\ w.num > 0)

(* C14: when the multiplier of a sub-risk is 0 and some other weight is    *)
(* positive, the score and the status do not depend on the input that      *)
(* drives that sub-risk: any other value of it gives the same two.         *)
C14_ZeroFactorSilencesInput ==
    \A i \in 1..Len(calls) : \A k \in RiskNames :
        (/\ ZeroFactor(calls[i].factors, k)
         /\ \E j \in RiskNames \ {k} : PositiveWeight(calls[i].w[j]))
            => \A v \in DriverValues[DriverOf[k]] :
                  LET other == simulate([calls[i].inputs EXCEPT ![DriverOf[k]] = v],
                                        calls[i].factors)
                  IN  /\ other.score = calls[i].out.score
                      /\ other.status = calls[i].out.status

(* A sweep for an entity whose misalign multiplier is 0: the curve is flat *)
(* and above zero.                                                         *)
C14_Witness ==
    /\ SweepDone /\ Ok
    /\ Len(calls) > 1
    /\ ZeroFactor(calls[1].factors, "misalign")
    /\ PositiveWeight(calls[1].w.load)
    /\ calls[1].out.score.k = "num" /\ calls[1].out.score.v > 0
    /\ \A i \in 1..Len(calls) :
          /\ calls[i].inputs.coilOffsetDeg = i - 1
          /\ calls[i].out.score = calls[1].out.score

---------------------------------------------------------------------------
(* The request names, by a string, an id that no entity of the list of the *)
(* caller's role carries.                                                  *)
NamesUnknownEntity ==
    /\ req.body.patientId.t = "string"
    /\ LET list == IF getRole(req) = "clinician"
                   THEN phiPatients ELSE researchPatients
       IN  \A i \in 1..Len(list) : list[i].id # req.body.patientId.s

WithoutPatientId == [req EXCEPT !.body.patientId = NoId]

(* The response to the request with patientId left out.                    *)
AnonymousResponse ==
    IF req.path = "/simulate"
    THEN HandleSimulate(WithoutPatientId).resp
    ELSE HandleSweep(WithoutPatientId).resp

(* C15: a /simulate or /simulate/sweep request whose patientId matches no  *)
(* entity of the caller's partition succeeds and gets the result of the    *)
(* same request without patientId: system defaults under the request's     *)
(* overrides, no factors.  (The sweep response repeats the patientId it    *)
(* was sent; the comparison is of from, to, step and data.)                *)
C15_UnknownIdIsAnonymous ==
    (Done /\ NamesUnknownEntity)
        => LET alone == AnonymousResponse
           IN  /\ resp.status = alone.status
               /\ (\A f \in InputFields : ~Invalid(f)) => Ok
               /\ \A i \in 1..Len(calls) : calls[i].factors = None
               /\ SimulateDone => resp.body = alone.body
               /\ (SweepDone /\ Ok)
                    => /\ resp.body.from = alone.body.from
                       /\ resp.body.to = alone.body.to
                       /\ resp.body.step = alone.body.step
                       /\ resp.body.data = alone.body.data

(* A researcher names P2, an entity of the PHI list only, and overrides    *)
(* the load: the coil offset is the system default, not P2's baseline.     *)
C15_Witness ==
    /\ SimulateDone /\ Ok
    /\ NamesUnknownEntity
    /\ req.body.patientId = Id("P2")
    /\ \E i \in 1..Len(phiPatients) : phiPatients[i].id = "P2"
    /\ calls[1].inputs.coilOffsetDeg = DefaultCoilOffsetDeg
    /\ calls[1].inputs.load_mA = 490

---------------------------------------------------------------------------
(* C17: the rationale of a result lists the misalignment and efficiency    *)
(* line first and the charge, temperature and load line second; it has     *)
(* exactly these two entries when no factors were passed to simulate, and  *)
(* exactly three, the weights line last, when factors were passed.         *)
C17_RationaleLines ==
    \A i \in 1..Len(calls) :
        LET lines == calls[i].out.rationale
        IN  /\ Len(lines) >= 2
            /\ lines[1].line = "Misalignment"
            /\ lines[1].coilOffsetDeg = calls[i].inputs.coilOffsetDeg
            /\ lines[1].efficiency = calls[i].out.telemetry.efficiency
            /\ lines[2].line = "Charge"
            /\ lines[2].chargeRateC = calls[i].inputs.chargeRateC
            /\ lines[2].tempC = calls[i].inputs.tempC
            /\ lines[2].load_mA = calls[i].inputs.load_mA
            /\ calls[i].factors = None => Len(lines) = 2
            /\ calls[i].factors # None
                 => Len(lines) = 3 /\ lines[3].line = "Weights"

(* A /simulate response that carries the three lines, for an entity with   *)
(* factors.                                                                *)
C17_Witness ==
    /\ SimulateDone /\ Ok
    /\ calls[1].factors # None
    /\ Len(resp.body.rationale) = 3
    /\ resp.body.rationale[3].line = "Weights"
    /\ resp.body.rationale[3].w.misalign = Finite(51)

---------------------------------------------------------------------------
---------------------------------------------------------------------------
(* The result of the call with one input put at the value given.           *)
ResultAt(call, field, v) ==
    simulate([call.inputs EXCEPT ![field] = v], call.factors)

(* C19: the rate and temperature sub-risks are floored at zero: with the   *)
(* other inputs and the factors fixed, every chargeRateC at or below 1     *)
(* gives the score and status of chargeRateC = 1, and every tempC at or    *)
(* below 37 those of tempC = 37.                                           *)
C19_RateAndTempFlooredAtZero ==
    \A i \in 1..Len(calls) :
        /\ calls[i].inputs.chargeRateC <= 100
             => LET atOne == ResultAt(calls[i], "chargeRateC", 100)
                IN  /\ calls[i].out.score = atOne.score
                    /\ calls[i].out.status = atOne.status
        /\ calls[i].inputs.tempC <= 37
             => LET atBody == ResultAt(calls[i], "tempC", 37)
                IN  /\ calls[i].out.score = atBody.score
                    /\ calls[i].out.status = atBody.status

(* A call at chargeRateC 0.2 and tempC 15 whose rate weight is positive    *)
(* and whose score is above zero.                                          *)
C19_Witness ==
    /\ Done /\ Ok
    /\ Len(calls) >= 1
    /\ calls[1].inputs.chargeRateC = 20
    /\ calls[1].inputs.tempC = 15
    /\ PositiveWeight(calls[1].w.rate)
    /\ calls[1].out.score.k = "num" /\ calls[1].out.score.v > 0

---------------------------------------------------------------------------
(* C20: for every coilOffsetDeg of 90 degrees or more that reaches         *)
(* simulate, the efficiency is 0 and misalignRisk is 1: the coupling is    *)
(* lost at every angle past 90 degrees.                                    *)
C20_NoCouplingPastNinety ==
    \A i \in 1..Len(calls) :
        calls[i].inputs.coilOffsetDeg >= 90
            => /\ efficiency(calls[i].inputs.coilOffsetDeg) = 0
               /\ calls[i].out.telemetry.efficiency = 0
               /\ misalignRisk(calls[i].inputs.coilOffsetDeg) = RiskUnit

(* The same between 90 and 270 degrees, where the cosine is not positive.  *)
C20_NoCouplingFromNinetyTo270 ==
    \A i \in 1..Len(calls) :
        (/\ calls[i].inputs.coilOffsetDeg >= 90
         /\ calls[i].inputs.coilOffsetDeg <= 270)
            => /\ efficiency(calls[i].inputs.coilOffsetDeg) = 0
               /\ calls[i].out.telemetry.efficiency = 0
               /\ misalignRisk(calls[i].inputs.coilOffsetDeg) = RiskUnit

(* A call at 120 degrees, answered with efficiency 0.00.                    *)
C20_CallAt120Degrees ==
    /\ SimulateDone /\ Ok
    /\ calls[1].inputs.coilOffsetDeg = 120
    /\ resp.body.telemetry.efficiency = 0

---------------------------------------------------------------------------
PatientsDone == Done /\ req.path = "/patients"

(* The header is present and spells clinician, in any letter case.         *)
HeaderSaysClinician ==
    req.xrole \in {Some("clinician"), Some("CLINICIAN"), Some("Clinician")}

IdentityKeys == {"name", "dob", "address"}

(* The response lists the records of the list given, one for one.          *)
Lists(body, list) ==
    /\ Len(body) = Len(list)
    /\ \A i \in 1..Len(list) :
          /\ body[i].id = list[i].id
          /\ body[i].baseline = list[i].baseline
          /\ body[i].factors = list[i].factors

(* C21: the audience is chosen by the x-role header alone: GET /patients   *)
(* answers with the identified list iff the header equals "clinician" in   *)
(* any letter case, and with the de-identified list for every other,       *)
(* empty or absent header; a record of an engineer response carries none   *)
(* of name, dob and address.                                               *)
C21_HeaderChoosesAudience ==
    PatientsDone
        => /\ Ok
           /\ HeaderSaysClinician => Lists(resp.body, phiPatients)
           /\ ~HeaderSaysClinician
                => /\ Lists(resp.body, researchPatients)
                   /\ \A i \in 1..Len(resp.body) :
                         resp.body[i].keys \cap IdentityKeys = {}

(* An engineer response (header "clinicians") for a store whose second     *)
(* de-identified record carries a stray name property.                     *)
C21_Witness ==
    /\ PatientsDone /\ Ok
    /\ req.xrole = Some("clinicians")
    /\ Len(resp.body) >= 2
    /\ "name" \in researchPatients[2].keys
    /\ resp.body[2].id = "R2"
    /\ "displayName" \in resp.body[2].keys
    /\ "name" \notin resp.body[2].keys

(* A clinician response (header "Clinician") with the identity fields.     *)
C21_ClinicianSeesIdentity ==
    /\ PatientsDone /\ Ok
    /\ req.xrole = Some("Clinician")
    /\ Len(resp.body) >= 2
    /\ resp.body[2].id = "P2"
    /\ IdentityKeys \subseteq resp.body[2].keys

---------------------------------------------------------------------------
(* What a POST request resolves to when only the list of its own audience  *)
(* is read: the identified list for a clinician header, the de-identified  *)
(* list for any other.                                                     *)
OwnList == IF HeaderSaysClinician THEN phiPatients ELSE researchPatients

OtherList == IF HeaderSaysClinician THEN researchPatients ELSE phiPatients

OwnHits ==
    IF req.body.patientId.t = "string" /\ req.body.patientId.s # ""
    THEN {i \in 1..Len(OwnList) : OwnList[i].id = req.body.patientId.s}
    ELSE {}

OwnEntity ==
    IF OwnHits = {} THEN None
    ELSE Some(OwnList[CHOOSE i \in OwnHits : \A j \in OwnHits : i <= j])

OwnInputs ==
    [f \in InputFields |->
        IF Present(f) THEN req.body[f].v
        ELSE IF OwnEntity # None /\ OwnEntity[1].baseline # None
                /\ f \in DOMAIN OwnEntity[1].baseline[1]
             THEN OwnEntity[1].baseline[1][f]
             ELSE SystemDefaults[f]]

OwnFactors == IF OwnEntity = None THEN None ELSE OwnEntity[1].factors

(* C22: the response to an engineer /simulate or /simulate/sweep request   *)
(* is determined by the request and the de-identified list alone, so it    *)
(* is the same whatever the identified list holds, and a patientId that    *)
(* only the identified list has is resolved as not found; likewise a       *)
(* clinician request never reads the de-identified list.                   *)
C22_OtherPartitionIsNeverRead ==
    /\ (SimulateDone /\ Ok)
         => /\ Len(calls) = 1
            /\ calls[1].inputs = OwnInputs
            /\ calls[1].factors = OwnFactors
            /\ resp.body = simulate(OwnInputs, OwnFactors)
    /\ (SweepDone /\ Ok)
         => /\ Len(resp.body.data) = Len(calls)
            /\ \A i \in 1..Len(calls) :
                  LET at == [OwnInputs EXCEPT !.coilOffsetDeg = i - 1]
                  IN  /\ calls[i].inputs = at
                      /\ calls[i].factors = OwnFactors
                      /\ resp.body.data[i].score = simulate(at, OwnFactors).score

(* An engineer sweep naming P3, which the identified list has and the      *)
(* de-identified list has not: it runs on the defaults, without factors.   *)
C22_Witness ==
    /\ SweepDone /\ Ok
    /\ ~HeaderSaysClinician
    /\ req.body.patientId = Id("P3")
    /\ \E i \in 1..Len(OtherList) : OtherList[i].id = "P3"
    /\ OwnEntity = None
    /\ Len(calls) > 1
    /\ calls[1].factors = None
    /\ calls[1].inputs.tempC = DefaultTempC

---------------------------------------------------------------------------
(* Input vectors across the documented ranges, the four corners included.  *)
RangeGrid ==
    { [coilOffsetDeg |-> c, chargeRateC |-> r, tempC |-> t, load_mA |-> l] :
        c \in 0..30,
        r \in {20, 50, 100, 130, 170, 199, 200},
        t \in {15, 30, 37, 38, 45, 52, 59, 60},
        l \in {0, 100, 250, 400, 499, 500} }

(* C23: with no factors, no input vector inside the documented ranges      *)
(* gives status RED: the largest score is the one at coilOffsetDeg 30,     *)
(* chargeRateC 2, tempC 60, load_mA 500, and it is below 0.65.             *)
C23_NoRedWithoutFactors ==
    \A i \in 1..Len(calls) :
        (calls[i].factors = None /\ InDocumentedRange(calls[i].inputs))
            => /\ calls[i].out.status # "RED"
               /\ calls[i].out.score.k = "num"
               /\ calls[i].out.score.v < RedFrom
               /\ ScoreNum(calls[i].inputs, None) <= ScoreNum(TopOfRange, None)
               /\ calls[i].inputs = TopOfRange
                    => \A v \in RangeGrid :
                          /\ ScoreNum(v, None) <= ScoreNum(calls[i].inputs, None)
                          /\ StatusOf(v, None) # "RED"

(* A call without factors just under the top of the ranges (load 490):     *)
(* AMBER at 0.61.                                                          *)
C23_Witness ==
    /\ SimulateDone /\ Ok
    /\ calls[1].factors = None
    /\ InDocumentedRange(calls[1].inputs)
    /\ calls[1].inputs.coilOffsetDeg = 30
    /\ calls[1].inputs.load_mA = 490
    /\ calls[1].out.status = "AMBER"
    /\ calls[1].out.score = Finite(61)

(* RED is reached inside the documented ranges once factors are passed.    *)
C23_RedWithFactorsInRange ==
    /\ Done /\ Ok /\ Len(calls) >= 1
    /\ calls[1].out.status = "RED"
    /\ calls[1].factors # None
    /\ InDocumentedRange(calls[1].inputs)

---------------------------------------------------------------------------
(* Properties of the frontend.                                             *)

sliderDisabled == ~hasAnySelection

NothingSelected == \A role \in RoleSet : panel[role].patientId = ""

(* C26: the slider gate is one-way.  The sliders are disabled exactly      *)
(* until a non-empty profile has been picked in either panel since the     *)
(* page loaded, and enabled in every state after that, the states with     *)
(* the empty option selected again in both panels included.                *)
C26_GateIsOneWay == sliderDisabled = ~history.picked

(* C26: a state with the gate open and the empty option back in both       *)
(* panels.                                                                 *)
C26_Witness == history.picked /\ NothingSelected /\ ~sliderDisabled

Excluded(role) == ~panelTargeted(affect, role)

(* C29: a panel that Affect excludes keeps as its effective inputs the     *)
(* slider values of the last moment it was targeted, whatever the sliders  *)
(* have done since; a targeted panel's effective inputs are the sliders.   *)
C29_HeldWhileExcluded ==
    \A role \in RoleSet :
        eff(Ui, role) = IF Excluded(role) THEN history.lastTargeted[role]
                        ELSE sliders

(* C29: an excluded panel whose effective inputs are not the sliders any   *)
(* more, in every one of the four inputs.                                  *)
C29_Witness ==
    \E role \in RoleSet :
        /\ Excluded(role)
        /\ \A f \in DOMAIN sliders : eff(Ui, role)[f] # sliders[f]
        /\ eff(Ui, role) = history.lastTargeted[role]

(* C30: a step that changes the selection of a panel Affect excludes       *)
(* leaves the four shared sliders as they were.                            *)
C30_ExcludedPanelLeavesSliders ==
    [][\A role \in RoleSet :
          Excluded(role) /\ panel'[role].patientId # panel[role].patientId
              => sliders' = sliders]_vars

Pair(role) ==
    [patientId |-> panel[role].patientId, compareId |-> panel[role].compareId]

(* C27: a pair that localStorage holds under wpt_last_<role>_v1 when the   *)
(* page is reloaded is in the panel once the page has loaded again: its    *)
(* patientId and, for the engineer, its compareId.                         *)
C27_ReloadRestoresStoredPair ==
    [][history'.reloads # history.reloads =>
          \A role \in RoleSet :
              localStorage.last[role] # None =>
                  /\ panel'[role].patientId = localStorage.last[role][1].patientId
                  /\ role = "engineer" =>
                        panel'[role].compareId = localStorage.last[role][1].compareId]_vars

(* C27: while Remember selection is on the stored pair of each role is     *)
(* the panel's current {patientId, compareId}; while it is off there is    *)
(* no stored pair.                                                         *)
C27_StoredPairFollowsSelection ==
    \A role \in RoleSet :
        localStorage.last[role] =
            IF rememberSelection THEN Some(Pair(role)) ELSE None

(* C27: Remember is on and the engineer's stored pair names a profile and  *)
(* a compare profile.                                                      *)
C27_StoredPairReached ==
    /\ rememberSelection
    /\ localStorage.last["engineer"] = Some(Pair("engineer"))
    /\ Pair("engineer").patientId # "" /\ Pair("engineer").compareId # ""

(* C24: while a patient is selected in a panel, the result readout and    *)
(* the Final curve of the panel are that patient's: neither holds the      *)
(* answer to a run that was started for another patient.                   *)
C24_ResultBelongsToSelection ==
    \A role \in RoleSet :
        panel[role].patientId # "" =>
            /\ panel[role].result # None =>
                  panel[role].result[1].patientId = panel[role].patientId
            /\ panel[role].curves.curveFinal # None =>
                  panel[role].curves.curveFinal[1].patientId = panel[role].patientId

(* C24: as long as the selection is not changed during a run, its result   *)
(* and Final curve are the selected patient's: a result or Final curve of  *)
(* another patient is in the panel only when the selection changed while   *)
(* a run was in flight.                                                    *)
C24_NoRunInFlightAtSelection ==
    [][\A role \in RoleSet :
          panel'[role].patientId # panel[role].patientId /\ manual[role] = None
              => panel'[role].result = None
                 /\ panel'[role].curves.curveFinal = None]_vars

Row(role, run, json) ==
    [role |-> role, profileId |-> run.patientId, inputs |-> run.inputs,
     outputs |-> [score |-> json.score, status |-> json.status]]

Shown(row) ==
    [role |-> row.role, profileId |-> row.profileId, inputs |-> row.inputs,
     outputs |-> row.outputs]

Answered(role) ==
    /\ manual[role] # None /\ manual[role][1].stage = "simulate"
    /\ manual'[role] # None /\ manual'[role][1].stage = "sweep"

(* C28: the run log only grows by one row at its end, or is emptied.  The  *)
(* step in which a run's POST /simulate is answered OK appends one row     *)
(* with the panel's role, the run's patientId, the inputs the run sent and *)
(* the score and status of the answer, which is the panel's result; every  *)
(* other step leaves the log as it is or, clearing it, empty.              *)
C28_LogAppendOnly ==
    [][LET runs == localStorage.runs
           after == localStorage'.runs
       IN  IF \E role \in RoleSet : Answered(role)
           THEN \E role \in RoleSet :
                   /\ Answered(role)
                   /\ Len(after) = Len(runs) + 1
                   /\ SubSeq(after, 1, Len(runs)) = runs
                   /\ Shown(after[Len(after)]) =
                         Row(role, manual[role][1], panel'[role].result[1])
           ELSE after = runs \/ after = << >>]_vars

(* C28: the same with the score of the row as the code converts it: the    *)
(* score of the answer when that is a number, 0 when it is null.           *)
C28_LogAppendOnlyWithNumbers ==
    [][LET runs == localStorage.runs
           after == localStorage'.runs
       IN  IF \E role \in RoleSet : Answered(role)
           THEN \E role \in RoleSet :
                   /\ Answered(role)
                   /\ Len(after) = Len(runs) + 1
                   /\ SubSeq(after, 1, Len(runs)) = runs
                   /\ LET json == panel'[role].result[1]
                          last == Shown(after[Len(after)])
                      IN  /\ [last EXCEPT !.outputs.score = json.score] =
                                Row(role, manual[role][1], json)
                          /\ last.outputs.score =
                                IF json.score = None THEN Some(0) ELSE json.score
           ELSE after = runs \/ after = << >>]_vars

(* C28: a log of two rows, the second of a run that was answered with a    *)
(* number after the first.                                                 *)
C28_TwoRowsLogged ==
    /\ Len(localStorage.runs) = 2
    /\ localStorage.runs[2].outputs.score = Some(42)
    /\ localStorage.runs[1] # localStorage.runs[2]

OverlayCurves(role) == {panel[role].curves[c] : c \in CurveNames} \ {None}

(* No overlay run of the panel is waiting for its timer or for a sweep.    *)
AtRest(role) ==
    /\ overlay[role].old = {}
    /\ overlay[role].cur # None => overlay[role].cur[1].phase = "done"

(* C25: once no overlay run of a panel is pending, the overlay curves the  *)
(* panel shows are those of one run only, the latest that wrote a curve:   *)
(* no curve of an earlier run is shown beside them.                        *)
C25_LatestRunOnly ==
    \A role \in RoleSet :
        AtRest(role) =>
            \A c1, c2 \in OverlayCurves(role) : c1[1].run = c2[1].run

(* C25: a step gives an overlay curve data only from the run that was      *)
(* current before the step, and the step in which a superseded run ends    *)
(* changes no curve.                                                       *)
C25_SupersededWritesNothing ==
    [][\A role \in RoleSet :
          /\ \A c \in CurveNames :
                LET new == panel'[role].curves[c]
                IN  new # None /\ new # panel[role].curves[c] =>
                        /\ overlay[role].cur # None
                        /\ ~overlay[role].cur[1].aborted
                        /\ new[1].run = overlay[role].cur[1].n
          /\ overlay'[role].old # overlay[role].old
             /\ overlay'[role].old \subseteq overlay[role].old
                => panel'[role].curves = panel[role].curves]_vars

(* C25: a run that has sent a request is one whose timer fired: the runs   *)
(* that await a sweep, superseded or not, have a number, and a run that    *)
(* was superseded while its timer was pending is not among them.           *)
C25_NoRequestBeforeTimer ==
    \A role \in RoleSet :
        /\ \A run \in overlay[role].old :
              run.aborted /\ run.n \in 1..history.fired[role]
        /\ overlay[role].cur # None =>
              (overlay[role].cur[1].phase = "timer") = (overlay[role].cur[1].n = 0)

(* C25: when the latest run of a panel has run to its end, the overlay     *)
(* curves of the panel are that run's.                                     *)
C25_CompletedRunOwnsCurves ==
    \A role \in RoleSet :
        overlay[role].cur # None /\ overlay[role].cur[1].phase = "done" =>
            \A curve \in OverlayCurves(role) :
                curve[1].run = overlay[role].cur[1].n

(* C25: a superseded run has ended after it had written a curve, and the   *)
(* second run completed with two curves.                                   *)
C25_SupersededRunEnded ==
    \E role \in RoleSet :
        /\ history.fired[role] = 2
        /\ AtRest(role)
        /\ overlay[role].cur # None
        /\ Cardinality(OverlayCurves(role)) >= 1
        /\ \E c \in CurveNames :
              panel[role].curves[c] # None /\ panel[role].curves[c][1].run = 2

=============================================================================
